---- MODULE Spec2Model ----
(***************************************************************************)
(* State-machine model of audio_record.py: the AudioRecorder capture       *)
(* thread, the PortAudio streaming callback, the WhisperTranscriber        *)
(* thread and the MainWindow slots that run on the GUI thread.             *)
(*                                                                         *)
(* Signals emitted by a worker thread are delivered to MainWindow through  *)
(* the GUI thread's event queue (queued connections), modelled by          *)
(* mainQueue.  Every slot is one atomic action of the GUI thread.          *)
(***************************************************************************)
EXTENDS Integers, Sequences, FiniteSets, TLC

\* ---------------------------------------------------------------- bounds
MaxSessions == 2      \* AudioRecorder objects created in one run
MaxChunks == 2        \* callback invocations per stream

\* ------------------------------------------------------------- constants
None == -1

\* get_supported_samplerates: the candidate list
CandidateRates == <<8000, 16000, 22050, 44100, 48000>>

\* update_model_list: the model identifiers
models == <<"tiny", "base", "small", "medium", "large">>

NoAudioMsg == "No audio data recorded"
PortAudioMsg == "PortAudioError"
LoadErrorMsg == "load_model failed"
TempFileErrorMsg == "NamedTemporaryFile failed"
WriteErrorMsg == "sf.write failed"
TranscribeErrorMsg == "transcribe failed"

NoModel == "None"

\* the frame batch the audio subsystem hands to the k-th callback invocation
\* of stream i: k frames (frames > 0) whose samples name the stream and the
\* invocation, so that every batch differs from every other in content and
\* consecutive batches differ in length.  The program never inspects samples.
Frames(i, k) == [n \in 1..k |-> 10 * i + k]

\* the entries of the model combo the operator chooses among
OperatorModels == {1, 2}

\* results of the opaque transcription capability
Texts == {"hello"}
Languages == {"en"}

\* the f-string of WhisperTranscriber.run
LanguageMessage(lang) ==
    IF lang = "en" THEN "Detected language: en" ELSE "Detected language: es"

\* outcomes of probing the five candidate rates of one device
AllProbeOutcomes == SUBSET {CandidateRates[k] : k \in 1..Len(CandidateRates)}

\* the input devices sd.query_devices reports (max_input_channels > 0)
InputDevices == <<1, 2>>

\* what check_input_settings may answer for each device, as the set of rates
\* that pass: any answer at all, or, in the pipeline model, one fixed answer
\* per device (the second device accepts none of the candidates)
AnyProbe == [d \in 1..Len(InputDevices) |-> AllProbeOutcomes]
FixedProbe == [d \in 1..Len(InputDevices) |->
                 IF d = 1 THEN {{16000, 44100}} ELSE {{}}]

VARIABLES
    device_combo,      \* [items, index]: QComboBox of input devices
    samplerate_combo,  \* [items, index]: QComboBox of sample rates
    model_combo,       \* current index into models
    recorder,          \* self.recorder: index into recorders, 0 = None
    is_recording,      \* self.is_recording
    transcriber,       \* self.transcriber: index into transcribers, 0 = unset
    transcription_text,\* contents of the QTextEdit
    recorders,         \* every AudioRecorder constructed so far
    transcribers,      \* every WhisperTranscriber constructed so far
    mainQueue,         \* signals queued for the GUI thread
    dialogs,           \* modal QMessageBox dialogs currently open
    win,               \* "open", "closing" (in recorder.wait()), "closed"
    lastProbe          \* rates for which check_input_settings last passed

vars == <<device_combo, samplerate_combo, model_combo, recorder, is_recording,
          transcriber, transcription_text, recorders, transcribers, mainQueue,
          dialogs, win, lastProbe>>

\* ---------------------------------------------------------------- helpers
\* QComboBox.currentData()
currentData(combo) ==
    IF combo.items = <<>> THEN None ELSE combo.items[combo.index]

\* QComboBox.currentText() of the model combo
currentText == models[model_combo]

\* the signal record a QThread emits
Signal(sig, src, buf, msg) == [sig |-> sig, src |-> src, buf |-> buf, msg |-> msg]

\* mutant of Concatenate: the chunks joined last to first
RECURSIVE ConcatenateReversed(_)
ConcatenateReversed(chunks) ==
    IF chunks = <<>> THEN <<>>
    ELSE ConcatenateReversed(Tail(chunks)) \o Head(chunks)

\* np.concatenate(self.audio_data, axis=0): the chunks' samples, chunk by chunk
RECURSIVE Concatenate(_)
Concatenate(chunks) ==
    IF chunks = <<>> THEN <<>>
    ELSE Head(chunks) \o Concatenate(Tail(chunks))

\* MainWindow.get_supported_samplerates: the loop over the candidate list from
\* position k on, appending each rate whose check_input_settings call passed
RECURSIVE SupportedFrom(_, _, _)
SupportedFrom(k, passed, supported) ==
    IF k > Len(CandidateRates) THEN supported
    ELSE IF CandidateRates[k] \in passed
         THEN SupportedFrom(k + 1, passed, Append(supported, CandidateRates[k]))
         ELSE SupportedFrom(k + 1, passed, supported)

\* mutant of get_supported_samplerates: a failed probe does not remove its rate
get_supported_samplerates_unfiltered(passed) == CandidateRates

get_supported_samplerates(passed) == SupportedFrom(1, passed, <<>>)

\* AudioRecorder.__init__, with recording set by start_recording.
\* status_printed is history of the callback, written by
\* audio_callback_history alone: print(status) has run.  beside_job is
\* history of the construction: a WhisperTranscriber thread was running then.
NewRecorder(device, samplerate) ==
    [device |-> device, samplerate |-> samplerate, recording |-> TRUE,
     audio_data |-> <<>>, pc |-> "starting", emitted |-> <<>>,
     delivered |-> <<>>, status_printed |-> FALSE,
     beside_job |-> \E j \in 1..Len(transcribers) : transcribers[j].pc # "done"]

\* WhisperTranscriber.__init__ (session: the recorder whose signal carried
\* the buffer)
NewTranscriber(audio_data, sample_rate, model_name, session) ==
    [audio_data |-> audio_data, sample_rate |-> sample_rate,
     model_name |-> model_name, model |-> NoModel, session |-> session,
     pc |-> "starting", temp_wav |-> FALSE, failed_step |-> "none",
     result |-> [text |-> "", language |-> ""], emitted |-> <<>>]

\* ------------------------------------------------------------------ Init
\* MainWindow.__init__: the device list, the probed rates of the first
\* device, the model list; no recorder yet
InitWith(outcomes) ==
    /\ \E n \in 0..Len(InputDevices) :
         /\ device_combo = [items |-> SubSeq(InputDevices, 1, n), index |-> 1]
         /\ IF n = 0
            THEN /\ samplerate_combo = [items |-> <<>>, index |-> 1]
                 /\ lastProbe = {}
            ELSE \E passed \in outcomes[1] :
                   /\ samplerate_combo =
                        [items |-> get_supported_samplerates(passed), index |-> 1]
                   /\ lastProbe = passed
    /\ model_combo = 1
    /\ recorder = 0
    /\ is_recording = FALSE
    /\ transcriber = 0
    /\ transcription_text = ""
    /\ recorders = <<>>
    /\ transcribers = <<>>
    /\ mainQueue = <<>>
    /\ dialogs = 0
    /\ win = "open"

Init == InitWith(FixedProbe)

\* the operator can use the main window: it is open and no modal box covers it
CanInteract == win = "open" /\ dialogs = 0

\* ------------------------------------------------- GUI thread: selections
\* device_combo.currentIndexChanged -> update_samplerate_list
update_samplerate_list(outcomes) ==
    /\ CanInteract
    /\ \E k \in 1..Len(device_combo.items) :
         /\ k # device_combo.index
         /\ device_combo' = [device_combo EXCEPT !.index = k]
         /\ \E passed \in outcomes[k] :
              /\ samplerate_combo' =
                   [items |-> get_supported_samplerates(passed), index |-> 1]
              /\ lastProbe' = passed
    /\ UNCHANGED <<model_combo, recorder, is_recording, transcriber,
                   transcription_text, recorders, transcribers, mainQueue,
                   dialogs, win>>

\* the operator picks another entry of the sample-rate combo
select_samplerate ==
    /\ CanInteract
    /\ \E k \in 1..Len(samplerate_combo.items) :
         /\ k # samplerate_combo.index
         /\ samplerate_combo' = [samplerate_combo EXCEPT !.index = k]
    /\ UNCHANGED <<device_combo, model_combo, recorder, is_recording,
                   transcriber, transcription_text, recorders, transcribers,
                   mainQueue, dialogs, win, lastProbe>>

\* the operator picks another entry of the model combo
select_model ==
    /\ CanInteract
    /\ \E k \in OperatorModels :
         /\ k # model_combo
         /\ model_combo' = k
    /\ UNCHANGED <<device_combo, samplerate_combo, recorder, is_recording,
                   transcriber, transcription_text, recorders, transcribers,
                   mainQueue, dialogs, win, lastProbe>>

\* ------------------------------------------- GUI thread: record / stop
\* mutant of start_recording: a recording is started only when no
\* WhisperTranscriber thread is running
start_recording_when_idle ==
    LET device == currentData(device_combo)
        samplerate == currentData(samplerate_combo)
    IN  IF device = None \/ samplerate = None
        THEN /\ dialogs' = dialogs + 1
             /\ UNCHANGED <<recorders, recorder, is_recording>>
        ELSE /\ Len(recorders) < MaxSessions
             /\ \A j \in 1..Len(transcribers) : transcribers[j].pc = "done"
             /\ recorders' = Append(recorders, NewRecorder(device, samplerate))
             /\ recorder' = Len(recorders) + 1
             /\ is_recording' = TRUE
             /\ UNCHANGED dialogs

\* MainWindow.start_recording
start_recording ==
    LET device == currentData(device_combo)
        samplerate == currentData(samplerate_combo)
    IN  IF device = None \/ samplerate = None
        THEN /\ dialogs' = dialogs + 1
             /\ UNCHANGED <<recorders, recorder, is_recording>>
        ELSE /\ Len(recorders) < MaxSessions
             /\ recorders' = Append(recorders, NewRecorder(device, samplerate))
             /\ recorder' = Len(recorders) + 1
             /\ is_recording' = TRUE
             /\ UNCHANGED dialogs

\* AudioRecorder.stop
stop(i) == recorders' = [recorders EXCEPT ![i].recording = FALSE]

\* MainWindow.stop_recording
stop_recording ==
    IF recorder # 0
    THEN /\ stop(recorder)
         /\ is_recording' = FALSE
    ELSE UNCHANGED <<recorders, is_recording>>

\* MainWindow.toggle_recording (the record button's clicked signal)
toggle_recording ==
    /\ CanInteract
    /\ IF ~is_recording
       THEN start_recording
       ELSE stop_recording /\ UNCHANGED <<recorder, dialogs>>
    /\ UNCHANGED <<device_combo, samplerate_combo, model_combo, transcriber,
                   transcription_text, transcribers, mainQueue, win, lastProbe>>

\* MainWindow.closeEvent up to recorder.wait()
closeEvent ==
    /\ CanInteract
    /\ stop_recording
    /\ win' = IF recorder # 0 /\ recorders[recorder].pc # "done"
              THEN "closing" ELSE "closed"
    /\ UNCHANGED <<device_combo, samplerate_combo, model_combo, recorder,
                   transcriber, transcription_text, transcribers, mainQueue,
                   dialogs, lastProbe>>

\* MainWindow.closeEvent: recorder.wait() returns, event.accept()
closeEventAccept ==
    /\ win = "closing"
    /\ recorders[recorder].pc = "done"
    /\ win' = "closed"
    /\ UNCHANGED <<device_combo, samplerate_combo, model_combo, recorder,
                   is_recording, transcriber, transcription_text, recorders,
                   transcribers, mainQueue, dialogs, lastProbe>>

\* the operator dismisses the topmost QMessageBox
dismiss_dialog ==
    /\ win = "open"
    /\ dialogs > 0
    /\ dialogs' = dialogs - 1
    /\ UNCHANGED <<device_combo, samplerate_combo, model_combo, recorder,
                   is_recording, transcriber, transcription_text, recorders,
                   transcribers, mainQueue, win, lastProbe>>

\* the process runs until the main window has closed
Alive == win # "closed"

\* --------------------------------------------- capture thread and callback
\* mutant of run_open_stream: run raises the flag itself once the stream is
\* open, which overwrites a stop() that came before
run_open_stream_sets_flag(i) ==
    /\ Alive
    /\ recorders[i].pc = "starting"
    /\ \/ /\ recorders' = [recorders EXCEPT ![i].pc = "polling",
                                            ![i].recording = TRUE]
          /\ UNCHANGED mainQueue
       \/ LET e == Signal("rec_error", i, <<>>, PortAudioMsg)
          IN  /\ recorders' = [recorders EXCEPT
                     ![i].pc = "done",
                     ![i].emitted = Append(@, e)]
              /\ mainQueue' = Append(mainQueue, e)
    /\ UNCHANGED <<device_combo, samplerate_combo, model_combo, recorder,
                   is_recording, transcriber, transcription_text, transcribers,
                   dialogs, win, lastProbe>>

\* AudioRecorder.run: entering the with block opens and starts the stream;
\* sd.InputStream may raise PortAudioError, which run reports on error
run_open_stream(i) ==
    /\ Alive
    /\ recorders[i].pc = "starting"
    /\ \/ /\ recorders' = [recorders EXCEPT ![i].pc = "polling"]
          /\ UNCHANGED mainQueue
       \/ LET e == Signal("rec_error", i, <<>>, PortAudioMsg)
          IN  /\ recorders' = [recorders EXCEPT
                     ![i].pc = "done",
                     ![i].emitted = Append(@, e)]
              /\ mainQueue' = Append(mainQueue, e)
    /\ UNCHANGED <<device_combo, samplerate_combo, model_combo, recorder,
                   is_recording, transcriber, transcription_text, transcribers,
                   dialogs, win, lastProbe>>

\* mutant of audio_callback: the stream is never closed, so the callback goes
\* on being invoked after run has left the with block
audio_callback_unclosed(i) ==
    /\ Alive
    /\ recorders[i].pc \in {"polling", "closed", "done"}
    /\ Len(recorders[i].delivered) < MaxChunks
    /\ LET indata == Frames(i, Len(recorders[i].delivered) + 1)
       IN  recorders' = [recorders EXCEPT
               ![i].audio_data = Append(@, indata),
               ![i].delivered = Append(@, indata)]
    /\ UNCHANGED <<device_combo, samplerate_combo, model_combo, recorder,
                   is_recording, transcriber, transcription_text, transcribers,
                   mainQueue, dialogs, win, lastProbe>>

\* AudioRecorder.audio_callback, invoked by the audio subsystem while the
\* stream is active; status is only printed
audio_callback(i) ==
    /\ Alive
    /\ recorders[i].pc = "polling"
    /\ Len(recorders[i].delivered) < MaxChunks
    /\ LET indata == Frames(i, Len(recorders[i].delivered) + 1)
       IN  recorders' = [recorders EXCEPT
               ![i].audio_data = Append(@, indata),
               ![i].delivered = Append(@, indata)]
    /\ UNCHANGED <<device_combo, samplerate_combo, model_combo, recorder,
                   is_recording, transcriber, transcription_text, transcribers,
                   mainQueue, dialogs, win, lastProbe>>

\* AudioRecorder.audio_callback once more, with its history kept: the status
\* the audio subsystem passes may be non-empty, in which case it is printed,
\* and the batch is appended either way
audio_callback_history(i) ==
    /\ Alive
    /\ recorders[i].pc = "polling"
    /\ Len(recorders[i].delivered) < MaxChunks
    /\ \E status \in BOOLEAN :
         LET indata == Frames(i, Len(recorders[i].delivered) + 1)
         IN  recorders' = [recorders EXCEPT
                 ![i].status_printed = @ \/ status,
                 ![i].audio_data = Append(@, indata),
                 ![i].delivered = Append(@, indata)]
    /\ UNCHANGED <<device_combo, samplerate_combo, model_combo, recorder,
                   is_recording, transcriber, transcription_text, transcribers,
                   mainQueue, dialogs, win, lastProbe>>

\* mutant of run_leave_loop: the error raised while closing is emitted by a
\* handler inside the try block, and run goes on to the emptiness test
run_leave_loop_continue(i) ==
    /\ Alive
    /\ recorders[i].pc = "polling"
    /\ ~recorders[i].recording
    /\ \/ /\ recorders' = [recorders EXCEPT ![i].pc = "closed"]
          /\ UNCHANGED mainQueue
       \/ LET e == Signal("rec_error", i, <<>>, PortAudioMsg)
          IN  /\ recorders' = [recorders EXCEPT
                     ![i].pc = "closed",
                     ![i].emitted = Append(@, e)]
              /\ mainQueue' = Append(mainQueue, e)
    /\ UNCHANGED <<device_combo, samplerate_combo, model_combo, recorder,
                   is_recording, transcriber, transcription_text, transcribers,
                   dialogs, win, lastProbe>>

\* AudioRecorder.run: the poll loop finds self.recording false and leaves the
\* with block, which stops and closes the stream (closing may raise
\* PortAudioError).  An iteration that finds self.recording true only sleeps.
run_leave_loop(i) ==
    /\ Alive
    /\ recorders[i].pc = "polling"
    /\ ~recorders[i].recording
    /\ \/ /\ recorders' = [recorders EXCEPT ![i].pc = "closed"]
          /\ UNCHANGED mainQueue
       \/ LET e == Signal("rec_error", i, <<>>, PortAudioMsg)
          IN  /\ recorders' = [recorders EXCEPT
                     ![i].pc = "done",
                     ![i].emitted = Append(@, e)]
              /\ mainQueue' = Append(mainQueue, e)
    /\ UNCHANGED <<device_combo, samplerate_combo, model_combo, recorder,
                   is_recording, transcriber, transcription_text, transcribers,
                   dialogs, win, lastProbe>>

\* mutant of run_finalize: the buffer is emitted without the emptiness test
run_finalize_unchecked(i) ==
    /\ Alive
    /\ recorders[i].pc = "closed"
    /\ LET e == Signal("rec_finished", i,
                       Concatenate(recorders[i].audio_data), "")
       IN  /\ recorders' = [recorders EXCEPT
                  ![i].pc = "done",
                  ![i].emitted = Append(@, e)]
           /\ mainQueue' = Append(mainQueue, e)
    /\ UNCHANGED <<device_combo, samplerate_combo, model_combo, recorder,
                   is_recording, transcriber, transcription_text, transcribers,
                   dialogs, win, lastProbe>>

\* AudioRecorder.run after the with block: finished(buffer) or error
run_finalize(i) ==
    /\ Alive
    /\ recorders[i].pc = "closed"
    /\ LET e == IF recorders[i].audio_data # <<>>
                THEN Signal("rec_finished", i,
                            Concatenate(recorders[i].audio_data), "")
                ELSE Signal("rec_error", i, <<>>, NoAudioMsg)
       IN  /\ recorders' = [recorders EXCEPT
                  ![i].pc = "done",
                  ![i].emitted = Append(@, e)]
           /\ mainQueue' = Append(mainQueue, e)
    /\ UNCHANGED <<device_combo, samplerate_combo, model_combo, recorder,
                   is_recording, transcriber, transcription_text, transcribers,
                   dialogs, win, lastProbe>>

\* ------------------------------------------------- GUI thread: the slots
\* mutant of on_recording_finished: the slot runs its body twice for one
\* signal, as if both definitions of the method were connected
on_recording_finished_twice ==
    /\ win = "open"
    /\ mainQueue # <<>>
    /\ Head(mainQueue).sig = "rec_finished"
    /\ LET audio_data == Head(mainQueue).buf
           sample_rate == currentData(samplerate_combo)
           model_name == currentText
       IN  transcribers' = transcribers \o
               << NewTranscriber(audio_data, sample_rate, model_name,
                                 Head(mainQueue).src),
                  NewTranscriber(audio_data, sample_rate, model_name,
                                 Head(mainQueue).src) >>
    /\ transcriber' = Len(transcribers) + 2
    /\ mainQueue' = Tail(mainQueue)
    /\ UNCHANGED <<device_combo, samplerate_combo, model_combo, recorder,
                   is_recording, transcription_text, recorders, dialogs, win,
                   lastProbe>>

\* MainWindow.on_recording_finished (the second definition, which replaces
\* the first)
on_recording_finished ==
    /\ win = "open"
    /\ mainQueue # <<>>
    /\ Head(mainQueue).sig = "rec_finished"
    /\ LET audio_data == Head(mainQueue).buf
           sample_rate == currentData(samplerate_combo)
           model_name == currentText
       IN  transcribers' = Append(transcribers,
               NewTranscriber(audio_data, sample_rate, model_name,
                              Head(mainQueue).src))
    /\ transcriber' = Len(transcribers) + 1
    /\ mainQueue' = Tail(mainQueue)
    /\ UNCHANGED <<device_combo, samplerate_combo, model_combo, recorder,
                   is_recording, transcription_text, recorders, dialogs, win,
                   lastProbe>>

\* MainWindow.on_error: a modal QMessageBox
on_error ==
    /\ win = "open"
    /\ mainQueue # <<>>
    /\ Head(mainQueue).sig \in {"rec_error", "tr_error"}
    /\ dialogs' = dialogs + 1
    /\ mainQueue' = Tail(mainQueue)
    /\ UNCHANGED <<device_combo, samplerate_combo, model_combo, recorder,
                   is_recording, transcriber, transcription_text, recorders,
                   transcribers, win, lastProbe>>

\* MainWindow.on_transcription_finished
on_transcription_finished ==
    /\ win = "open"
    /\ mainQueue # <<>>
    /\ Head(mainQueue).sig = "tr_finished"
    /\ transcription_text' = Head(mainQueue).msg
    /\ mainQueue' = Tail(mainQueue)
    /\ UNCHANGED <<device_combo, samplerate_combo, model_combo, recorder,
                   is_recording, transcriber, recorders, transcribers, dialogs,
                   win, lastProbe>>

\* ------------------------------------------------- transcription thread
\* mutant of transcriber_fail: the exception is swallowed without a signal
transcriber_fail_silent(j, step, msg, temp) ==
    /\ transcribers' = [transcribers EXCEPT
           ![j].pc = "done",
           ![j].failed_step = step,
           ![j].temp_wav = temp]
    /\ UNCHANGED mainQueue

\* the except branch of WhisperTranscriber.run: self.error.emit(str(e))
transcriber_fail(j, step, msg, temp) ==
    LET e == Signal("tr_error", j, <<>>, msg)
    IN  /\ transcribers' = [transcribers EXCEPT
               ![j].pc = "done",
               ![j].failed_step = step,
               ![j].temp_wav = temp,
               ![j].emitted = Append(@, e)]
        /\ mainQueue' = Append(mainQueue, e)

\* mutant of transcriber_load: the model combo is read when the thread loads
transcriber_load_current(j) ==
    /\ Alive
    /\ transcribers[j].pc = "starting"
    /\ \/ /\ transcribers' = [transcribers EXCEPT
                 ![j].model = currentText,
                 ![j].pc = "loaded"]
          /\ UNCHANGED mainQueue
       \/ transcriber_fail(j, "load", LoadErrorMsg, FALSE)
    /\ UNCHANGED <<device_combo, samplerate_combo, model_combo, recorder,
                   is_recording, transcriber, transcription_text, recorders,
                   dialogs, win, lastProbe>>

\* WhisperTranscriber.run: whisper.load_model(self.model_name)
transcriber_load(j) ==
    /\ Alive
    /\ transcribers[j].pc = "starting"
    /\ \/ /\ transcribers' = [transcribers EXCEPT
                 ![j].model = transcribers[j].model_name,
                 ![j].pc = "loaded"]
          /\ UNCHANGED mainQueue
       \/ transcriber_fail(j, "load", LoadErrorMsg, FALSE)
    /\ UNCHANGED <<device_combo, samplerate_combo, model_combo, recorder,
                   is_recording, transcriber, transcription_text, recorders,
                   dialogs, win, lastProbe>>

\* WhisperTranscriber.run: the NamedTemporaryFile(delete=False) block with
\* sf.write; sf.write raises when the sample rate is None
transcriber_write(j) ==
    /\ Alive
    /\ transcribers[j].pc = "loaded"
    /\ \/ transcriber_fail(j, "transfer", TempFileErrorMsg, FALSE)
       \/ transcriber_fail(j, "transfer", WriteErrorMsg, TRUE)
       \/ /\ transcribers[j].sample_rate # None
          /\ transcribers' = [transcribers EXCEPT
                 ![j].temp_wav = TRUE,
                 ![j].pc = "written"]
          /\ UNCHANGED mainQueue
    /\ UNCHANGED <<device_combo, samplerate_combo, model_combo, recorder,
                   is_recording, transcriber, transcription_text, recorders,
                   dialogs, win, lastProbe>>

\* WhisperTranscriber.run: self.model.transcribe(temp_wav_path)
transcriber_transcribe(j) ==
    /\ Alive
    /\ transcribers[j].pc = "written"
    /\ \/ \E text \in Texts, language \in Languages :
            /\ transcribers' = [transcribers EXCEPT
                   ![j].result = [text |-> text, language |-> language],
                   ![j].pc = "transcribed"]
            /\ UNCHANGED mainQueue
       \/ transcriber_fail(j, "inference", TranscribeErrorMsg, TRUE)
    /\ UNCHANGED <<device_combo, samplerate_combo, model_combo, recorder,
                   is_recording, transcriber, transcription_text, recorders,
                   dialogs, win, lastProbe>>

\* mutant of transcriber_emit_language: the language signal is not emitted
transcriber_emit_language_skipped(j) ==
    /\ Alive
    /\ transcribers[j].pc = "transcribed"
    /\ transcribers' = [transcribers EXCEPT ![j].pc = "language_emitted"]
    /\ UNCHANGED <<device_combo, samplerate_combo, model_combo, recorder,
                   is_recording, transcriber, transcription_text, recorders,
                   mainQueue, dialogs, win, lastProbe>>

\* WhisperTranscriber.run: self.language_detected.emit(...); no slot is
\* connected to this signal, so nothing is queued for the GUI thread
transcriber_emit_language(j) ==
    /\ Alive
    /\ transcribers[j].pc = "transcribed"
    /\ transcribers' = [transcribers EXCEPT
           ![j].pc = "language_emitted",
           ![j].emitted = Append(@, Signal("tr_language", j, <<>>,
                              LanguageMessage(transcribers[j].result.language)))]
    /\ UNCHANGED <<device_combo, samplerate_combo, model_combo, recorder,
                   is_recording, transcriber, transcription_text, recorders,
                   mainQueue, dialogs, win, lastProbe>>

\* WhisperTranscriber.run: self.finished.emit(result["text"])
transcriber_emit_finished(j) ==
    /\ Alive
    /\ transcribers[j].pc = "language_emitted"
    /\ LET e == Signal("tr_finished", j, <<>>, transcribers[j].result.text)
       IN  /\ transcribers' = [transcribers EXCEPT
                  ![j].pc = "done",
                  ![j].emitted = Append(@, e)]
           /\ mainQueue' = Append(mainQueue, e)
    /\ UNCHANGED <<device_combo, samplerate_combo, model_combo, recorder,
                   is_recording, transcriber, transcription_text, recorders,
                   dialogs, win, lastProbe>>

\* ---------------------------------------------------------- specification
\* the worker threads and the audio subsystem
Threads ==
    \/ \E i \in 1..Len(recorders) : run_open_stream(i)
    \/ \E i \in 1..Len(recorders) : audio_callback(i)
    \/ \E i \in 1..Len(recorders) : run_leave_loop(i)
    \/ \E i \in 1..Len(recorders) : run_finalize(i)
    \/ \E j \in 1..Len(transcribers) : transcriber_load(j)
    \/ \E j \in 1..Len(transcribers) : transcriber_write(j)
    \/ \E j \in 1..Len(transcribers) : transcriber_transcribe(j)
    \/ \E j \in 1..Len(transcribers) : transcriber_emit_language(j)
    \/ \E j \in 1..Len(transcribers) : transcriber_emit_finished(j)

\* the slots the GUI thread runs for queued signals
Slots ==
    \/ on_recording_finished
    \/ on_error
    \/ on_transcription_finished

\* the whole program with an operator who uses every control
Next ==
    \/ update_samplerate_list(FixedProbe)
    \/ select_samplerate
    \/ select_model
    \/ toggle_recording
    \/ closeEvent
    \/ closeEventAccept
    \/ dismiss_dialog
    \/ Slots
    \/ Threads

Spec == Init /\ [][Next]_vars

\* the whole program with an operator who records, changes device and sample
\* rate and closes the window, and leaves the model combo alone
NextCapture ==
    \/ update_samplerate_list(FixedProbe)
    \/ select_samplerate
    \/ toggle_recording
    \/ closeEvent
    \/ closeEventAccept
    \/ dismiss_dialog
    \/ Slots
    \/ Threads

SpecCapture == Init /\ [][NextCapture]_vars

\* the whole program with an operator who records and changes the model, and
\* leaves the device and sample-rate combos alone
NextTranscribe ==
    \/ select_model
    \/ toggle_recording
    \/ dismiss_dialog
    \/ Slots
    \/ Threads

SpecTranscribe == Init /\ [][NextTranscribe]_vars

\* the same program with the capture worker scheduled fairly: a started
\* thread gets to run, its poll loop wakes from sd.sleep(100), and code after
\* the with block gets executed; the audio subsystem owes no batches and the
\* operator owes no clicks
CaptureWorkerFairness ==
    \A i \in 1..MaxSessions :
        /\ WF_vars(i <= Len(recorders) /\ run_open_stream(i))
        /\ WF_vars(i <= Len(recorders) /\ run_leave_loop(i))
        /\ WF_vars(i <= Len(recorders) /\ run_finalize(i))

SpecStop == Init /\ [][NextTranscribe]_vars /\ CaptureWorkerFairness

\* the whole program with an operator who only records and stops, and with
\* the history of every callback invocation kept
NextCallback ==
    \/ toggle_recording
    \/ dismiss_dialog
    \/ Slots
    \/ \E i \in 1..Len(recorders) : run_open_stream(i)
    \/ \E i \in 1..Len(recorders) : audio_callback_history(i)
    \/ \E i \in 1..Len(recorders) : run_leave_loop(i)
    \/ \E i \in 1..Len(recorders) : run_finalize(i)
    \/ \E j \in 1..Len(transcribers) : transcriber_load(j)
    \/ \E j \in 1..Len(transcribers) : transcriber_write(j)
    \/ \E j \in 1..Len(transcribers) : transcriber_transcribe(j)
    \/ \E j \in 1..Len(transcribers) : transcriber_emit_language(j)
    \/ \E j \in 1..Len(transcribers) : transcriber_emit_finished(j)

SpecCallback == Init /\ [][NextCallback]_vars

\* the device catalogue alone: any probe answer for any device
NextRates ==
    \/ update_samplerate_list(AnyProbe)
    \/ select_samplerate

SpecRates == InitWith(AnyProbe) /\ [][NextRates]_vars

\* ------------------------------------------------- vocabulary of the claims
\* the capture-session state of recorder i in the design's terms
SessionState(i) ==
    LET r == recorders[i]
    IN  IF r.pc = "done"
        THEN IF r.emitted # <<>> /\ r.emitted[Len(r.emitted)].sig = "rec_finished"
             THEN "Completed" ELSE "Failed"
        ELSE IF r.recording THEN "Recording" ELSE "Stopping"

\* the number of samples in the first k batches of a sequence of batches
RECURSIVE SamplesBefore(_, _)
SamplesBefore(batches, k) ==
    IF k = 0 THEN 0
    ELSE SamplesBefore(batches, k - 1) + Len(batches[k])

\* buf holds the batches' samples, batch after batch, and nothing else
IsConcatenationOf(buf, batches) ==
    /\ Len(buf) = SamplesBefore(batches, Len(batches))
    /\ \A k \in 1..Len(batches) : \A n \in 1..Len(batches[k]) :
         buf[SamplesBefore(batches, k - 1) + n] = batches[k][n]

\* the signals with the given name among a sequence of emitted signals
Count(emitted, sig) == Cardinality({n \in 1..Len(emitted) : emitted[n].sig = sig})

\* -------------------------------------------------------------------- C1
\* C1: every buffer a capture session emits with finished is the
\* concatenation, in delivery order, of the batches the callback delivered to
\* that session: its length is the sum of the batches' lengths, every sample
\* sits at its batch's offset, and no sample comes from another session's
\* stream.
C1_BufferIsConcatenation ==
    \A i \in 1..Len(recorders) : \A n \in 1..Len(recorders[i].emitted) :
        LET e == recorders[i].emitted[n]
        IN  e.sig = "rec_finished" =>
              /\ Len(recorders[i].delivered) >= 1
              /\ IsConcatenationOf(e.buf, recorders[i].delivered)
              /\ \A m \in 1..Len(e.buf) : e.buf[m] \div 10 = i

\* a session finished with two batches of different lengths while another
\* session had received a batch of its own
C1_Witness ==
    \E i, j \in 1..Len(recorders) :
        /\ i # j
        /\ recorders[i].pc = "done"
        /\ Count(recorders[i].emitted, "rec_finished") = 1
        /\ Len(recorders[i].delivered) >= 2
        /\ Len(recorders[i].delivered[1]) # Len(recorders[i].delivered[2])
        /\ Len(recorders[j].delivered) >= 1

\* -------------------------------------------------------------------- C2
\* in every state: a session that ended with no delivered chunk emitted exactly
\* one error and no finished signal and has no WhisperTranscriber, and no
\* emitted finished signal carries an empty buffer
C2_EmptyInv ==
    /\ \A i \in 1..Len(recorders) :
         (recorders[i].pc = "done" /\ recorders[i].delivered = <<>>) =>
            /\ Len(recorders[i].emitted) = 1
            /\ recorders[i].emitted[1].sig = "rec_error"
            /\ SessionState(i) = "Failed"
            /\ \A j \in 1..Len(transcribers) : transcribers[j].session # i
    /\ \A i \in 1..Len(recorders) : \A n \in 1..Len(recorders[i].emitted) :
         recorders[i].emitted[n].sig = "rec_finished" =>
            recorders[i].emitted[n].buf # <<>>

\* in every step: finalizing a stopped, torn-down session with no chunk emits
\* the "No audio data recorded" error
C2_EmptyStep ==
    \A i \in 1..Len(recorders) :
        (/\ recorders[i].pc = "closed"
         /\ recorders[i].delivered = <<>>
         /\ recorders'[i].pc = "done") =>
            recorders'[i].emitted = <<Signal("rec_error", i, <<>>, NoAudioMsg)>>

\* C2: a session that is stopped with no delivered chunk ends Failed with the
\* "No audio data recorded" error as its only signal; it never emits finished
\* with an empty buffer, and no WhisperTranscriber is created for it.
C2_EmptyRecordingFails == [](C2_EmptyInv) /\ [][C2_EmptyStep]_vars

\* a stopped session whose stream was torn down with no chunk has ended with
\* the "No audio data recorded" error
C2_Witness ==
    \E i \in 1..Len(recorders) :
        /\ recorders[i].pc = "done"
        /\ ~recorders[i].recording
        /\ recorders[i].delivered = <<>>
        /\ recorders[i].emitted = <<Signal("rec_error", i, <<>>, NoAudioMsg)>>

\* -------------------------------------------------------------------- C3
\* C3: at most one capture session is in a non-terminal state (Recording or
\* Stopping) at any instant.
C3_AtMostOneNonTerminal ==
    Cardinality({i \in 1..Len(recorders) :
                    SessionState(i) \in {"Recording", "Stopping"}}) <= 1

\* -------------------------------------------------------------------- C4
\* C4: the sample rate of every WhisperTranscriber equals the sample rate its
\* capture session was started with.
C4_JobRateIsSessionRate ==
    \A j \in 1..Len(transcribers) :
        transcribers[j].sample_rate = recorders[transcribers[j].session].samplerate

\* -------------------------------------------------------------------- C5
\* in every step: a transcriber keeps its model name and loads no other model,
\* and a newly created transcriber is named the model selected in the state the
\* slot ran in
C5_HandOffStep ==
    /\ Len(transcribers') >= Len(transcribers)
    /\ \A j \in 1..Len(transcribers) :
         /\ transcribers'[j].model_name = transcribers[j].model_name
         /\ transcribers'[j].model \in {NoModel, transcribers[j].model_name}
    /\ Len(transcribers') > Len(transcribers) =>
         /\ transcribers'[Len(transcribers')].model_name = models[model_combo]
         /\ transcribers'[Len(transcribers')].model = NoModel

\* C5: the hand-off step gives the new WhisperTranscriber the model selected
\* at that instant; no later step (a selection in particular) changes a
\* transcriber's model name; and the model a transcriber loads is the one
\* named at hand-off.
C5_ModelReadAtHandOff == [][C5_HandOffStep]_vars

\* a transcriber has loaded the model named at hand-off, which is neither
\* the start-up selection nor the operator's selection by now
C5_Witness ==
    \E j \in 1..Len(transcribers) :
        /\ transcribers[j].model = transcribers[j].model_name
        /\ transcribers[j].model_name # models[1]
        /\ transcribers[j].model_name # currentText

\* -------------------------------------------------------------------- C6
\* C6: a WhisperTranscriber that failed at model load, at the transfer to the
\* temporary file or at inference has terminated having emitted exactly one
\* signal, an error: no language_detected and no finished signal, before or
\* after it, and none queued for the window.
C6_FailureEmitsOneError ==
    \A j \in 1..Len(transcribers) :
        transcribers[j].failed_step # "none" =>
            /\ transcribers[j].pc = "done"
            /\ Len(transcribers[j].emitted) = 1
            /\ transcribers[j].emitted[1].sig = "tr_error"
            /\ \A n \in 1..Len(mainQueue) :
                 mainQueue[n].src = j =>
                    mainQueue[n].sig \notin {"tr_finished", "tr_language"}

\* a job has failed at the last of the three steps, after the file was written
C6_Witness ==
    \E j \in 1..Len(transcribers) :
        /\ transcribers[j].failed_step = "inference"
        /\ transcribers[j].pc = "done"
        /\ transcribers[j].emitted =
             <<Signal("tr_error", j, <<>>, TranscribeErrorMsg)>>

\* -------------------------------------------------------------------- C7
\* C7: a WhisperTranscriber that terminated without a failure emitted exactly
\* two signals, language_detected and then finished; and at any moment a
\* transcriber that has emitted finished emitted language_detected before it
\* and no error.
C7_SuccessEmitsLanguageThenFinished ==
    \A j \in 1..Len(transcribers) :
        /\ (transcribers[j].pc = "done" /\ transcribers[j].failed_step = "none") =>
              /\ Len(transcribers[j].emitted) = 2
              /\ transcribers[j].emitted[1].sig = "tr_language"
              /\ transcribers[j].emitted[2].sig = "tr_finished"
        /\ Count(transcribers[j].emitted, "tr_finished") >= 1 =>
              /\ Count(transcribers[j].emitted, "tr_finished") = 1
              /\ Count(transcribers[j].emitted, "tr_language") = 1
              /\ Count(transcribers[j].emitted, "tr_error") = 0
              /\ transcribers[j].emitted[1].sig = "tr_language"

\* a job has run to the end without a failure
C7_Witness ==
    \E j \in 1..Len(transcribers) :
        /\ transcribers[j].pc = "done"
        /\ transcribers[j].failed_step = "none"
        /\ transcribers[j].result.text \in Texts

\* -------------------------------------------------------------------- C8
\* C8: no terminated WhisperTranscriber leaves its temporary file behind.
C8_TempFileReleased ==
    \A j \in 1..Len(transcribers) :
        transcribers[j].pc = "done" => ~transcribers[j].temp_wav

\* -------------------------------------------------------------------- C9
\* a stop command: the record button while is_recording, or closing the window
C9_StopCommand == (toggle_recording /\ is_recording) \/ closeEvent

\* a stop command given when the current session is not Recording changes
\* nothing of the recorders, the recording flag, the queue or the transcribers
C9_StopStep ==
    (/\ recorder # 0
     /\ SessionState(recorder) # "Recording"
     /\ C9_StopCommand) =>
        UNCHANGED <<recorders, is_recording, mainQueue, transcribers>>

\* C9: a stop command issued when the current session is not Recording
\* (Stopping, Completed or Failed) changes neither a recorder nor the window's
\* recording flag, and queues no signal.
C9_StopIsNoOp == [][C9_StopStep]_vars

\* ------------------------------------------------------------------- C10
\* C10: the sample-rate combo lists exactly the candidate rates whose probe
\* passed, in ascending order, nothing else, and probing has raised no
\* dialog and queued no error.
C10_SupportedRatesExact ==
    LET items == samplerate_combo.items
        candidates == {CandidateRates[k] : k \in 1..Len(CandidateRates)}
    IN  /\ \A k \in 1..Len(items) : items[k] \in candidates /\ items[k] \in lastProbe
        /\ \A r \in candidates \cap lastProbe : \E k \in 1..Len(items) : items[k] = r
        /\ \A k \in 1..(Len(items) - 1) : items[k] < items[k + 1]
        /\ dialogs = 0
        /\ mainQueue = <<>>

\* after a device change whose probe rejected 8000 and 48000 the combo lists
\* 16000, 22050, 44100
C10_Witness ==
    /\ device_combo.index = 2
    /\ lastProbe = {16000, 22050, 44100}
    /\ samplerate_combo.items = <<16000, 22050, 44100>>

\* ------------------------------------------------------------------- C11
\* C11: at most one WhisperTranscriber thread is running at any instant.
C11_AtMostOneTranscriber ==
    Cardinality({j \in 1..Len(transcribers) : transcribers[j].pc # "done"}) <= 1

\* ------------------------------------------------------------------- C12
\* C12: a session whose callback was handed a non-empty status ends Failed,
\* with one error emitted and no finished buffer.
C12_StatusAbortsSession ==
    \A i \in 1..Len(recorders) :
        (recorders[i].status_printed /\ recorders[i].pc = "done") =>
            /\ SessionState(i) = "Failed"
            /\ Count(recorders[i].emitted, "rec_finished") = 0
            /\ Count(recorders[i].emitted, "rec_error") = 1

\* ------------------------------------------------------------------- C13
\* the error of recorder i has been handled by on_error
C13_ErrorForwarded(i) ==
    /\ Count(recorders[i].emitted, "rec_error") = 1
    /\ \A n \in 1..Len(mainQueue) :
         ~(mainQueue[n].sig = "rec_error" /\ mainQueue[n].src = i)

\* a click on the record button, once the current session has failed on its
\* own and its error has been shown, starts a new recording session
C13_NextStartStep ==
    (/\ recorder # 0
     /\ SessionState(recorder) = "Failed"
     /\ recorders[recorder].recording
     /\ C13_ErrorForwarded(recorder)
     /\ currentData(device_combo) # None
     /\ currentData(samplerate_combo) # None
     /\ Len(recorders) < MaxSessions
     /\ toggle_recording) =>
        /\ Len(recorders') = Len(recorders) + 1
        /\ recorders'[Len(recorders')].recording
        /\ is_recording'

\* C13: after a capture session has failed on its own and the error was
\* forwarded, the very next start command is accepted and begins a new
\* Recording session.
C13_ResetAfterFailure == [][C13_NextStartStep]_vars

\* ------------------------------------------------------------------- C14
\* the buffer of recorder i has reached the main thread: a finished signal of
\* i is queued, or a transcriber holds audio of session i
C14_BufferSurfaced(i) ==
    \/ \E n \in 1..Len(mainQueue) :
         mainQueue[n].sig = "rec_finished" /\ mainQueue[n].src = i
    \/ \E j \in 1..Len(transcribers) : transcribers[j].session = i

\* C14: a capture session emits at most one signal, and exactly one once its
\* thread has ended, on every path; a session that emitted error carries no
\* buffer in the signal and no buffer of it reaches the main thread.
C14_OneTerminalOutcome ==
    \A i \in 1..Len(recorders) :
        /\ Len(recorders[i].emitted) <= 1
        /\ (recorders[i].pc = "done") <=> (Len(recorders[i].emitted) = 1)
        /\ \A n \in 1..Len(recorders[i].emitted) :
             /\ recorders[i].emitted[n].sig \in {"rec_finished", "rec_error"}
             /\ recorders[i].emitted[n].sig = "rec_error" =>
                  /\ recorders[i].emitted[n].buf = <<>>
                  /\ ~C14_BufferSurfaced(i)

\* a session whose stream failed after batches had been captured has ended
\* with its one error
C14_Witness ==
    \E i \in 1..Len(recorders) :
        /\ recorders[i].pc = "done"
        /\ recorders[i].audio_data # <<>>
        /\ recorders[i].emitted = <<Signal("rec_error", i, <<>>, PortAudioMsg)>>

\* ------------------------------------------------------------------- C15
\* in every step, a session whose chunk sequence changes is Recording
C15_AppendStep ==
    \A i \in 1..Len(recorders) :
        recorders'[i].audio_data # recorders[i].audio_data =>
            SessionState(i) = "Recording"

\* C15: chunks are appended to a session's sequence only while the session
\* is Recording; never after stop() made it Stopping, and never once it is
\* Completed or Failed.
C15_AppendOnlyWhileRecording == [][C15_AppendStep]_vars

\* ------------------------------------------------------------------- C16
\* C16: while a session's buffer is being concatenated (run is past the with
\* block), while its finished signal is queued and while a transcriber holds
\* its audio, the session's callback cannot be invoked; the signal is queued
\* and the transcriber exists only once run has ended, and both carry the
\* concatenation of the session's chunk sequence as it still is.
C16_JobAfterTeardown ==
    /\ \A i \in 1..Len(recorders) :
         recorders[i].pc \in {"closed", "done"} => ~ENABLED audio_callback(i)
    /\ \A n \in 1..Len(mainQueue) :
         mainQueue[n].sig = "rec_finished" =>
            /\ recorders[mainQueue[n].src].pc = "done"
            /\ mainQueue[n].buf =
                 Concatenate(recorders[mainQueue[n].src].audio_data)
    /\ \A j \in 1..Len(transcribers) :
         /\ recorders[transcribers[j].session].pc = "done"
         /\ ~ENABLED audio_callback(transcribers[j].session)
         /\ transcribers[j].audio_data =
              Concatenate(recorders[transcribers[j].session].audio_data)

\* a transcriber is running on the audio of a session that was stopped before
\* the stream had delivered all the batches it could
C16_Witness ==
    /\ Alive
    /\ \E j \in 1..Len(transcribers) :
         /\ transcribers[j].pc \in {"starting", "loaded", "written"}
         /\ Len(recorders[transcribers[j].session].delivered) < MaxChunks
         /\ recorders[transcribers[j].session].audio_data # <<>>

\* ------------------------------------------------------------------- C17
\* the transcribers created for session i
C17_Jobs(i) == {j \in 1..Len(transcribers) : transcribers[j].session = i}

\* the finished signals of session i not yet handled
C17_Queued(i) ==
    {n \in 1..Len(mainQueue) :
        mainQueue[n].sig = "rec_finished" /\ mainQueue[n].src = i}

\* in every state: a Completed session has one transcriber or one finished
\* signal waiting to be handled, any other session has neither
C17_JobInv ==
    \A i \in 1..Len(recorders) :
        Cardinality(C17_Jobs(i)) + Cardinality(C17_Queued(i)) =
            IF SessionState(i) = "Completed" THEN 1 ELSE 0

\* in every step: a transcriber is created only by handling a finished
\* signal, one at a time, with that signal's buffer; and a transcriber keeps
\* the buffer, session, rate and model name it was constructed with
C17_JobStep ==
    /\ transcribers' # transcribers /\ Len(transcribers') # Len(transcribers) =>
         /\ mainQueue # <<>>
         /\ Head(mainQueue).sig = "rec_finished"
         /\ mainQueue' = Tail(mainQueue)
         /\ Len(transcribers') = Len(transcribers) + 1
         /\ transcribers'[Len(transcribers')].session = Head(mainQueue).src
         /\ transcribers'[Len(transcribers')].audio_data = Head(mainQueue).buf
         /\ transcribers'[Len(transcribers')].pc = "starting"
    /\ \A j \in 1..Len(transcribers) :
         /\ transcribers'[j].audio_data = transcribers[j].audio_data
         /\ transcribers'[j].session = transcribers[j].session
         /\ transcribers'[j].sample_rate = transcribers[j].sample_rate
         /\ transcribers'[j].model_name = transcribers[j].model_name
         /\ transcribers[j].pc = "done" => transcribers'[j] = transcribers[j]

\* C17: exactly one WhisperTranscriber is created for each session that
\* Completed, when its finished signal is handled, none for a session that
\* Failed, and a transcriber is never run again on a second buffer.
C17_OneJobPerCompletedSession == [](C17_JobInv) /\ [][C17_JobStep]_vars

\* one session Completed and its transcriber has ended, another session
\* Failed and its error has been handled
C17_Witness ==
    \E i, k \in 1..Len(recorders) :
        /\ SessionState(i) = "Completed"
        /\ \E j \in C17_Jobs(i) : transcribers[j].pc = "done"
        /\ SessionState(k) = "Failed"
        /\ mainQueue = <<>>

\* ------------------------------------------------------------------- C18
\* C18: with the capture worker scheduled fairly, a session whose flag was
\* cleared by stop(), at whatever point after start_recording, eventually has
\* its thread ended with its one outcome emitted.
C18_StopNeverLost ==
    \A i \in 1..MaxSessions :
        (i <= Len(recorders) /\ ~recorders[i].recording) ~>
            (/\ i <= Len(recorders)
             /\ recorders[i].pc = "done"
             /\ Len(recorders[i].emitted) = 1)

\* a session was stopped before the stream had delivered anything, and its
\* thread has ended with the no-audio error
C18_Witness ==
    \E i \in 1..Len(recorders) :
        /\ ~recorders[i].recording
        /\ recorders[i].pc = "done"
        /\ recorders[i].delivered = <<>>
        /\ recorders[i].emitted = <<Signal("rec_error", i, <<>>, NoAudioMsg)>>

\* ------------------------------------------------------------------- C19
\* a WhisperTranscriber thread is running
C19_JobRunning == \E j \in 1..Len(transcribers) : transcribers[j].pc # "done"

\* in every state with a transcriber running: a click on Record with a
\* device and a rate selected, a click on Stop, every step of every capture
\* thread, the callback, and the hand-off of a finished recording are
\* possible exactly as they are without one
C19_NothingBlocked ==
    (C19_JobRunning /\ win = "open") =>
        /\ (/\ dialogs = 0
            /\ ~is_recording
            /\ currentData(device_combo) # None
            /\ currentData(samplerate_combo) # None
            /\ Len(recorders) < MaxSessions) => ENABLED toggle_recording
        /\ (dialogs = 0 /\ is_recording) => ENABLED toggle_recording
        /\ \A i \in 1..Len(recorders) :
             /\ recorders[i].pc = "starting" => ENABLED run_open_stream(i)
             /\ (/\ recorders[i].pc = "polling"
                 /\ Len(recorders[i].delivered) < MaxChunks) =>
                    ENABLED audio_callback(i)
             /\ (recorders[i].pc = "polling" /\ ~recorders[i].recording) =>
                    ENABLED run_leave_loop(i)
             /\ recorders[i].pc = "closed" => ENABLED run_finalize(i)
        /\ (mainQueue # <<>> /\ Head(mainQueue).sig = "rec_finished") =>
               ENABLED on_recording_finished

\* in every step: a click on Record while a transcriber is running starts a
\* Recording session, and a step of a transcriber changes nothing of any
\* recorder nor of the window's recording state
C19_JobStep ==
    /\ (/\ C19_JobRunning
        /\ ~is_recording
        /\ currentData(device_combo) # None
        /\ currentData(samplerate_combo) # None
        /\ toggle_recording) =>
           /\ Len(recorders') = Len(recorders) + 1
           /\ recorders'[Len(recorders')].recording
           /\ recorders'[Len(recorders')].pc = "starting"
           /\ recorder' = Len(recorders')
           /\ is_recording'
    /\ (/\ Len(transcribers') = Len(transcribers)
        /\ transcribers' # transcribers) =>
           /\ recorders' = recorders
           /\ recorder' = recorder
           /\ is_recording' = is_recording

\* C19: a WhisperTranscriber thread that has not finished blocks only its own
\* job: Record is still accepted, the new session's thread and callback can
\* take every step up to its outcome and hand-off, and no step of the
\* transcriber changes any state of a capture session.
C19_HungJobBlocksOnlyItself == [](C19_NothingBlocked) /\ [][C19_JobStep]_vars

\* a session started while a transcriber was running has Completed, and that
\* transcriber is still running
C19_Witness ==
    \E i \in 1..Len(recorders) :
        /\ recorders[i].beside_job
        /\ SessionState(i) = "Completed"
        /\ \E j \in 1..Len(transcribers) :
             /\ transcribers[j].session < i
             /\ transcribers[j].pc \in {"starting", "loaded", "written"}
             /\ \A k \in 1..Len(transcribers) :
                  k # j => transcribers[k].pc = "done" \/ transcribers[k].session = i

\* ------------------------------------------------------------------- C20
\* in every step in which a transcriber emits language_detected, the signal
\* is queued for a slot of the main window
C20_LanguageStep ==
    \A j \in 1..Len(transcribers) :
        Count(transcribers'[j].emitted, "tr_language") >
            Count(transcribers[j].emitted, "tr_language") =>
                \E n \in 1..Len(mainQueue') :
                    /\ mainQueue'[n].sig = "tr_language"
                    /\ mainQueue'[n].src = j

\* C20: the language a successful transcriber detects is forwarded by the
\* main window to the presentation layer, before the text, not only emitted.
C20_LanguageForwarded == [][C20_LanguageStep]_vars

====
